---------------------------- MODULE Spec2Model ----------------------------
(***************************************************************************)
(* Model of scripts/sync-reqs-to-braingrid.py: the bidirectional sync      *)
(* between local REQ documents and the Braingrid requirement tracker.      *)
(*                                                                         *)
(* Representation.  A Python str is held as the sequence of its            *)
(* characters, each a one-character string; characters outside ASCII are  *)
(* held as one element named by their code point ("U2500").  A text that   *)
(* the code splits on "\n" is held as the sequence of its lines, that is   *)
(* as text.split("\n"): a non-empty sequence of strings.                   *)
(***************************************************************************)
EXTENDS Integers, Sequences, FiniteSets, TLC

(***************************************************************************)
(* Python str operations                                                   *)
(***************************************************************************)
MinOf(S) == CHOOSE i \in S : \A j \in S : i <= j

MaxOf(S) == CHOOSE i \in S : \A j \in S : i >= j

\* str.isspace() of one character
IsWs(c) == c \in {" ", "\t", "\r"}

\* s.startswith(p)
StartsWith(s, p) == Len(p) <= Len(s) /\ SubSeq(s, 1, Len(p)) = p

\* s.endswith(p)
EndsWith(s, p) == Len(p) <= Len(s) /\ SubSeq(s, Len(s) - Len(p) + 1, Len(s)) = p

\* s.find(p) + 1: the first position of p in s, 0 when p does not occur
Find(s, p) ==
    LET I == {i \in 1..(Len(s) - Len(p) + 1) : SubSeq(s, i, i + Len(p) - 1) = p}
    IN  IF I = {} THEN 0 ELSE MinOf(I)

\* p in s
Contains(s, p) == Find(s, p) # 0

\* s.lstrip(chars)
LStripChars(s, chars) ==
    LET I == {i \in 1..Len(s) : s[i] \notin chars}
    IN  IF I = {} THEN <<>> ELSE SubSeq(s, MinOf(I), Len(s))

\* s.rstrip(chars)
RStripChars(s, chars) ==
    LET I == {i \in 1..Len(s) : s[i] \notin chars}
    IN  IF I = {} THEN <<>> ELSE SubSeq(s, 1, MaxOf(I))

\* s.strip(chars)
StripChars(s, chars) == RStripChars(LStripChars(s, chars), chars)

WsChars == {" ", "\t", "\r"}

\* s.rstrip()
RStrip(s) == RStripChars(s, WsChars)

\* s.strip()
Strip(s) == StripChars(s, WsChars)

\* s.split(sep, 1) for a separator that occurs in s: <<before, after>>
SplitAt(s, i, n) == <<SubSeq(s, 1, i - 1), SubSeq(s, i + n, Len(s))>>

SplitOnce(s, sep) == SplitAt(s, Find(s, sep), Len(sep))

RECURSIVE SplitOn(_, _)
\* s.split(sep)
SplitOn(s, sep) ==
    IF ~Contains(s, sep) THEN <<s>>
    ELSE <<SplitOnce(s, sep)[1]>> \o SplitOn(SplitOnce(s, sep)[2], sep)

\* the position after the first token of t
TokenEnd(t) ==
    LET W == {i \in 1..Len(t) : IsWs(t[i])}
    IN  IF W = {} THEN Len(t) + 1 ELSE MinOf(W)

RECURSIVE SplitWs(_)
\* the tokens of t, which starts with a token that ends before position e
SplitTokens(t, e) == <<SubSeq(t, 1, e - 1)>> \o SplitWs(SubSeq(t, e + 1, Len(t)))

\* s.split(): the whitespace-separated tokens of s
SplitWs(s) ==
    IF LStripChars(s, WsChars) = <<>> THEN <<>>
    ELSE SplitTokens(LStripChars(s, WsChars), TokenEnd(LStripChars(s, WsChars)))

RECURSIVE JoinWith(_, _)
\* sep.join(parts)
JoinWith(parts, sep) ==
    IF parts = <<>> THEN <<>>
    ELSE IF Len(parts) = 1 THEN parts[1]
    ELSE parts[1] \o sep \o JoinWith(Tail(parts), sep)

RECURSIVE ReplaceAll(_, _, _)
\* s.replace(old, new), old non-empty
ReplaceAll(s, old, new) ==
    IF ~Contains(s, old) THEN s
    ELSE SplitOnce(s, old)[1] \o new \o ReplaceAll(SplitOnce(s, old)[2], old, new)

UpperLetters ==
    <<"A", "B", "C", "D", "E", "F", "G", "H", "I", "J", "K", "L", "M",
      "N", "O", "P", "Q", "R", "S", "T", "U", "V", "W", "X", "Y", "Z">>

LowerLetters ==
    <<"a", "b", "c", "d", "e", "f", "g", "h", "i", "j", "k", "l", "m",
      "n", "o", "p", "q", "r", "s", "t", "u", "v", "w", "x", "y", "z">>

LowerChar(c) ==
    IF \E k \in 1..26 : UpperLetters[k] = c
    THEN LowerLetters[CHOOSE k \in 1..26 : UpperLetters[k] = c]
    ELSE c

\* s.lower()
Lower(s) == [i \in 1..Len(s) |-> LowerChar(s[i])]

\* s.zfill(width)
ZFill(s, width) ==
    LET pad == [i \in 1..(width - Len(s)) |-> "0"]
    IN  IF Len(s) >= width THEN s
        ELSE IF s # <<>> /\ s[1] \in {"+", "-"} THEN <<s[1]>> \o pad \o Tail(s)
        ELSE pad \o s

\* "\n".join(lines) of a text held as its lines; "".split("\n") is [""]
JoinLines(lines) == IF lines = <<>> THEN << <<>> >> ELSE lines

(***************************************************************************)
(* String constants of the script                                          *)
(***************************************************************************)
sREQ == <<"R", "E", "Q", "-">>
sNA == <<"N", "/", "A">>
sBranch == <<"B", "r", "a", "n", "c", "h">>
sUnknown == <<"U", "n", "k", "n", "o", "w", "n">>
sShortIdHdr == <<"S", "h", "o", "r", "t", " ", "I", "D">>
sShortIdLbl == <<"S", "h", "o", "r", "t", " ", "I", "D", ":">>
sIdLbl == <<"I", "D", ":">>
sStatusLbl == <<"S", "t", "a", "t", "u", "s", ":">>
sTitleLbl == <<"t", "i", "t", "l", "e", ":">>
sStatusLine == <<"s", "t", "a", "t", "u", "s", ":">>
sDashes == <<"-", "-", "-">>
\* a status of no table
sDraft == <<"d", "r", "a", "f", "t">>
sCreated == <<"C", "r", "e", "a", "t", "e", "d">>
sUpdated == <<"U", "p", "d", "a", "t", "e", "d">>

\* dictionary keys
kTitle == <<"t", "i", "t", "l", "e">>
kReqId == <<"r", "e", "q", "_", "i", "d">>
kStatus == <<"s", "t", "a", "t", "u", "s">>
kShortId == <<"s", "h", "o", "r", "t", "_", "i", "d">>
kId == <<"i", "d">>
kName == <<"n", "a", "m", "e">>

\* local status vocabulary
sNotStarted == <<"N", "o", "t", " ", "S", "t", "a", "r", "t", "e", "d">>
sInProgress == <<"I", "n", " ", "P", "r", "o", "g", "r", "e", "s", "s">>
sCompleted == <<"C", "o", "m", "p", "l", "e", "t", "e", "d">>
sReview == <<"R", "e", "v", "i", "e", "w">>

\* Braingrid status vocabulary
sPLANNED == <<"P", "L", "A", "N", "N", "E", "D">>
sIN_PROGRESS == <<"I", "N", "_", "P", "R", "O", "G", "R", "E", "S", "S">>
sCOMPLETED == <<"C", "O", "M", "P", "L", "E", "T", "E", "D">>
sREVIEW == <<"R", "E", "V", "I", "E", "W">>

\* the emoji and box-drawing characters of the CLI's output
cClipboard == "U1F4CB"
cEyes == "U1F440"
cMemo == "U1F4DD"
cCheck == "U2705"
cCross == "U274C"
cCycle == "U1F504"
cBox == "U2500"

(***************************************************************************)
(* Dictionaries: a dict with str keys is a function on its key set.  A     *)
(* metadata value is a str or a list of str, tagged so that "" and []     *)
(* stay apart.                                                             *)
(***************************************************************************)
EmptyDict == <<>>

Put(d, k, v) == [x \in (DOMAIN d) \cup {k} |-> IF x = k THEN v ELSE d[x]]

StrV(s) == [t |-> "str", v |-> s]

ListV(l) == [t |-> "list", v |-> l]

\* d.get(k, default)
Get(d, k, default) == IF k \in DOMAIN d THEN d[k] ELSE default

\* bool(value) of a metadata value
Truthy(val) == val.v # <<>>


(***************************************************************************)
(* MetadataParser                                                          *)
(***************************************************************************)
\* the quote removal of lines 78-79 and 98-99
Unquote(v) ==
    IF \/ StartsWith(v, <<"\"">>) /\ EndsWith(v, <<"\"">>)
       \/ StartsWith(v, <<"'">>) /\ EndsWith(v, <<"'">>)
    THEN SubSeq(v, 2, Len(v) - 1)
    ELSE v

NonBlank(v) == Strip(v) # <<>>

StripQuotes(v) == StripChars(StripChars(Strip(v), {"\""}), {"'"})

StripItems(kept) == [k \in 1..Len(kept) |-> StripQuotes(kept[k])]

\* [v.strip().strip('"').strip("'") for v in value.split(",") if v.strip()]
InlineItems(value) == StripItems(SelectSeq(SplitOn(value, <<",">>), NonBlank))

\* the value of an inline list `[a, b]` (lines 82-87)
InlineList(inner) == IF inner # <<>> THEN ListV(InlineItems(inner)) ELSE ListV(<<>>)

\* the index after the run of "-" lines that starts at line i
BlockEnd(fm, i) ==
    LET Stop == {k \in i..Len(fm) : ~StartsWith(Strip(fm[k]), <<"-">>)}
    IN  IF Stop = {} THEN Len(fm) + 1 ELSE MinOf(Stop)

\* the items of the "-" lines i .. j-1
BlockItems(fm, i, j) ==
    [k \in 1..(j - i) |-> Unquote(Strip(Tail(Strip(fm[i + k - 1]))))]

RECURSIVE ParseFrontMatterLines(_, _, _)
\* the multi-line list of lines 89-104: its "-" lines are i .. j-1
ParseBlock(fm, i, j, metadata, key) ==
    ParseFrontMatterLines(fm, j, Put(metadata, key, ListV(BlockItems(fm, i, j))))

\* lines 76-107 for the line i, which holds key and value
ParseEntry(fm, i, metadata, key, value) ==
    IF StartsWith(value, <<"[">>) /\ EndsWith(value, <<"]">>)
    THEN ParseFrontMatterLines(fm, i + 1,
             Put(metadata, key, InlineList(Strip(SubSeq(value, 2, Len(value) - 1)))))
    ELSE IF value = <<>> /\ i + 1 <= Len(fm) /\ StartsWith(Strip(fm[i + 1]), <<"-">>)
    THEN ParseBlock(fm, i + 1, BlockEnd(fm, i + 1), metadata, key)
    ELSE ParseFrontMatterLines(fm, i + 1, Put(metadata, key, StrV(value)))

\* lines 65-110 for the line i, right-stripped
ParseLine(fm, i, metadata, line) ==
    IF line = <<>> \/ StartsWith(line, <<"#">>) \/ ~Contains(line, <<":">>)
    THEN ParseFrontMatterLines(fm, i + 1, metadata)
    ELSE ParseEntry(fm, i, metadata, Strip(SplitOnce(line, <<":">>)[1]),
                    Unquote(Strip(SplitOnce(line, <<":">>)[2])))

\* the while loop of parse_yaml_front_matter; i is the 1-based line index
ParseFrontMatterLines(fm, i, metadata) ==
    IF i > Len(fm) THEN metadata ELSE ParseLine(fm, i, metadata, RStrip(fm[i]))

\* lines 56-114: the front matter ends at line end_idx
ParseDelimited(lines, end_idx) ==
    [metadata |-> ParseFrontMatterLines(SubSeq(lines, 2, end_idx - 1), 1, EmptyDict),
     markdown |-> JoinLines(SubSeq(lines, end_idx + 1, Len(lines)))]

\* lines 51-55 were the loop to start at the first line
EndsFromFirst(lines) == {i \in 1..Len(lines) : Strip(lines[i]) = sDashes}

\* the lines after the first that close the front matter
Ends(lines) == {i \in 2..Len(lines) : Strip(lines[i]) = sDashes}

\* parse_yaml_front_matter(content): the metadata and the markdown content
parse_yaml_front_matter(content) ==
    IF ~StartsWith(content[1], sDashes) \/ Len(content) < 2 \/ Ends(content) = {}
    THEN [metadata |-> EmptyDict, markdown |-> content]
    ELSE ParseDelimited(content, MinOf(Ends(content)))

\* read_req_file(file_path) of a readable file: metadata and the full content
read_req_file(content) ==
    [metadata |-> parse_yaml_front_matter(content).metadata, content |-> content]

(***************************************************************************)
(* StatusMapper                                                            *)
(***************************************************************************)
STATUS_MAP ==
    (sNotStarted :> sPLANNED) @@ (sInProgress :> sIN_PROGRESS)
    @@ (sCompleted :> sCOMPLETED) @@ (sReview :> sREVIEW)

REVERSE_STATUS_MAP ==
    (sPLANNED :> sNotStarted) @@ (sIN_PROGRESS :> sInProgress)
    @@ (sCOMPLETED :> sCompleted) @@ (sREVIEW :> sCompleted)

\* line 425 were STATUS_MAP.get(local_status) called without a default
MapStatusWithoutDefault(local_status) == Get(STATUS_MAP, local_status, <<>>)

\* map_status(local_status) for a str argument
map_status(local_status) == Get(STATUS_MAP, local_status, sPLANNED)

\* reverse_map_status(braingrid_status)
reverse_map_status(braingrid_status) ==
    Get(REVERSE_STATUS_MAP, braingrid_status, sNotStarted)

(***************************************************************************)
(* TitleNormalizer                                                         *)
(***************************************************************************)
StripSuffix(name, suffix) ==
    IF EndsWith(name, suffix) THEN SubSeq(name, 1, Len(name) - Len(suffix)) ELSE name

NameSuffixes ==
    << <<" ", "s", "y", "s">>,
       <<" ", "s", "y", "s", "t", "e", "m">>,
       <<" ", "l", "a", "y", "e", "r">>,
       <<" ", "i", "m", "p", "r", "o", "v", "e", "m", "e", "n", "t", "s">> >>

RECURSIVE StripSuffixes(_, _)
\* the for loop of normalize_name over the suffixes from position k on
StripSuffixes(name, k) ==
    IF k > Len(NameSuffixes) THEN name
    ELSE StripSuffixes(StripSuffix(name, NameSuffixes[k]), k + 1)

\* normalize_name(name)
normalize_name(name) ==
    StripSuffixes(
        Strip(Lower(IF Contains(name, <<":">>) THEN SplitOnce(name, <<":">>)[2] ELSE name)),
        1)

(***************************************************************************)
(* RemoteClient: the text the braingrid CLI prints.  A requirement held by *)
(* Braingrid is [short_id, id, name, status, content]; content is the text *)
(* it was created with, held as its lines.                                 *)
(***************************************************************************)
\* width of the Name column of "requirement list"; longer names are cut
NameColumnWidth == 23

StatusIcon(status) ==
    IF status = sREVIEW THEN <<cEyes>>
    ELSE IF status = sPLANNED THEN <<cMemo>>
    ELSE IF status = sCOMPLETED THEN <<cCheck>>
    ELSE IF status = sIN_PROGRESS THEN <<cCycle>>
    ELSE <<cCross>>

\* one table row: "REQ-1   <icon> REVIEW   Organize and Structure   N/A   100%"
ListRow(r) ==
    r.short_id \o <<" ", " ">> \o StatusIcon(r.status) \o <<" ">> \o r.status
    \o <<" ", " ">>
    \o SubSeq(r.name, 1, IF Len(r.name) < NameColumnWidth THEN Len(r.name) ELSE NameColumnWidth)
    \o <<" ", " ">> \o sNA \o <<" ", " ", "0", "%">>

\* stdout of "requirement list": banner, column header, separator, rows
ListStdout(reqs) ==
    << <<cClipboard, " ", "R", "e", "q", "s">>,
       <<>>,
       sShortIdHdr \o <<" ", " ", "S", "t", "a", "t", "u", "s", " ", " ", "N", "a", "m", "e">>,
       <<cBox, cBox, cBox, cBox>> >>
    \o [k \in 1..Len(reqs) |-> ListRow(reqs[k])]

ContentSeparator == [k \in 1..16 |-> cBox]

\* stdout of "requirement show": labelled lines, separator, content
ShowStdout(r) ==
    << sShortIdLbl \o <<" ">> \o r.short_id,
       sIdLbl \o <<" ">> \o r.id,
       sStatusLbl \o <<" ">> \o r.status,
       ContentSeparator >>
    \o r.content

(***************************************************************************)
(* ListingScanner                                                          *)
(***************************************************************************)
IconTokens == {<<cEyes>>, <<cMemo>>, <<cCheck>>, <<cCross>>, <<cCycle>>}

\* None, and a str that is absent, are both held as the empty str
None == <<>>

\* where the name of a row ends: before "N/A", before a token that ends
\* in "%", before "Branch" past the first name token (lines 176-183)
NameEnd(parts, status_idx) ==
    LET Stop == {i \in (status_idx + 1)..Len(parts) :
                    \/ parts[i] = sNA
                    \/ EndsWith(parts[i], <<"%">>)
                    \/ (i > status_idx + 1 /\ parts[i] = sBranch)}
    IN  IF Stop = {} THEN Len(parts) ELSE MinOf(Stop) - 1

\* lines 185-191: the dict appended for one row
RowRecord(short_id, status, name_parts) ==
    [short_id |-> short_id,
     name |-> IF name_parts # <<>> THEN JoinWith(name_parts, <<" ">>) ELSE sUnknown,
     status |-> status,
     id |-> None]

\* lines 170-191: the status is the token at status_idx
ParseRowAt(parts, status_idx) ==
    RowRecord(parts[1], parts[status_idx],
              SubSeq(parts, status_idx + 1, NameEnd(parts, status_idx)))

\* the record of one table row; parts has at least 3 tokens
ParseRow(parts) == ParseRowAt(parts, IF parts[2] \in IconTokens THEN 3 ELSE 2)

RECURSIVE ScanListing(_, _, _, _)
\* lines 156-191 were rows read without the in_table test of line 164
ScanListingLineAnywhere(lines, k, in_table, reqs, line, parts) ==
    IF line = <<>> \/ StartsWith(line, <<cClipboard>>) \/ StartsWith(line, sShortIdHdr)
    THEN ScanListing(lines, k + 1, in_table, reqs)
    ELSE IF Contains(line, <<cBox, cBox>>)
    THEN ScanListing(lines, k + 1, TRUE, reqs)
    ELSE IF Len(parts) >= 3
    THEN ScanListing(lines, k + 1, in_table, Append(reqs, ParseRow(parts)))
    ELSE ScanListing(lines, k + 1, in_table, reqs)

\* lines 156-191 for one stripped line and its tokens
ScanListingLine(lines, k, in_table, reqs, line, parts) ==
    IF line = <<>> \/ StartsWith(line, <<cClipboard>>) \/ StartsWith(line, sShortIdHdr)
    THEN ScanListing(lines, k + 1, in_table, reqs)
    ELSE IF Contains(line, <<cBox, cBox>>)
    THEN ScanListing(lines, k + 1, TRUE, reqs)
    ELSE IF in_table /\ Len(parts) >= 3
    THEN ScanListing(lines, k + 1, in_table, Append(reqs, ParseRow(parts)))
    ELSE ScanListing(lines, k + 1, in_table, reqs)

\* the for loop of list_braingrid_requirements from line k on
ScanListing(lines, k, in_table, reqs) ==
    IF k > Len(lines) THEN reqs
    ELSE ScanListingLine(lines, k, in_table, reqs, Strip(lines[k]), SplitWs(Strip(lines[k])))

\* list_braingrid_requirements(): success and stdout are the command's result
list_braingrid_requirements(success, stdout) ==
    IF ~success THEN <<>> ELSE ScanListing(stdout, 1, FALSE, <<>>)

(***************************************************************************)
(* Detail lookups                                                          *)
(***************************************************************************)
kContent == <<"c", "o", "n", "t", "e", "n", "t">>

\* line.split(":", 1)[1].strip() of a line that holds ":"
DetailValue(line) ==
    IF Contains(line, <<":">>) THEN Strip(SplitOnce(line, <<":">>)[2]) ELSE <<>>

\* key.strip().lower().replace(" ", "_") of line 236
DetailKey(line) ==
    ReplaceAll(Lower(Strip(SplitOnce(line, <<":">>)[1])), <<" ">>, <<"_">>)

RECURSIVE ScanDetails(_, _, _, _, _)
\* lines 215-238 for one stripped line
ScanDetailsLine(lines, k, in_content, result, content_lines, line, value) ==
    IF StartsWith(line, sShortIdLbl)
    THEN ScanDetails(lines, k + 1, in_content, Put(result, kShortId, value), content_lines)
    ELSE IF StartsWith(line, sIdLbl)
    THEN ScanDetails(lines, k + 1, in_content, Put(result, kId, value), content_lines)
    ELSE IF StartsWith(line, sStatusLbl)
    THEN ScanDetails(lines, k + 1, in_content, Put(result, kStatus, value), content_lines)
    ELSE IF StartsWith(line, ContentSeparator)
    THEN ScanDetails(lines, k + 1, TRUE, result, content_lines)
    ELSE IF in_content /\ line # <<>>
    THEN ScanDetails(lines, k + 1, in_content, result, Append(content_lines, line))
    ELSE IF line # <<>> /\ ~in_content /\ Contains(line, <<":">>)
    THEN ScanDetails(lines, k + 1, in_content, Put(result, DetailKey(line), value),
                     content_lines)
    ELSE ScanDetails(lines, k + 1, in_content, result, content_lines)

\* the for loop of get_requirement_full_content from line k on
ScanDetails(lines, k, in_content, result, content_lines) ==
    IF k > Len(lines)
    THEN IF content_lines # <<>>
         THEN Put(result, kContent, JoinWith(content_lines, <<"\n">>))
         ELSE result
    ELSE ScanDetailsLine(lines, k, in_content, result, content_lines,
                         Strip(lines[k]), DetailValue(Strip(lines[k])))

\* get_requirement_full_content(short_id): [ok |-> FALSE] stands for None
get_requirement_full_content(short_id, success, stdout) ==
    IF ~success THEN [ok |-> FALSE, d |-> EmptyDict]
    ELSE [ok |-> TRUE,
          d |-> ScanDetails(stdout, 1, FALSE, Put(EmptyDict, kShortId, short_id), <<>>)]

\* lines 249-252: the id and short id of a details result
DetailsOf(result) ==
    IF result.ok
    THEN [ok |-> TRUE, id |-> Get(result.d, kId, None),
          short_id |-> Get(result.d, kShortId, None)]
    ELSE [ok |-> FALSE, id |-> None, short_id |-> None]

\* get_requirement_details(short_id)
get_requirement_details(short_id, success, stdout) ==
    DetailsOf(get_requirement_full_content(short_id, success, stdout))

\* lines 272-281: the first content line that starts with "title:"
TitleLines(lines) == {k \in 1..Len(lines) : StartsWith(lines[k], sTitleLbl)}

\* lines 272-285 over the content's lines
NameIn(result, lines) ==
    IF TitleLines(lines) # {}
    THEN StripQuotes(SplitOnce(lines[MinOf(TitleLines(lines))], <<":">>)[2])
    ELSE Get(result.d, kName, None)

\* lines 270-285 over a details result
NameOf(result) ==
    IF ~result.ok THEN None
    ELSE NameIn(result, SplitOn(Get(result.d, kContent, <<>>), <<"\n">>))

\* get_full_requirement_name(short_id): None when nothing is found
get_full_requirement_name(short_id, success, stdout) ==
    NameOf(get_requirement_full_content(short_id, success, stdout))

(***************************************************************************)
(* Matcher                                                                 *)
(***************************************************************************)
\* "requirement show <short_id>" against the requirements Braingrid holds;
\* up says whether the command itself succeeds
ShowCommand(remote, short_id, up) ==
    LET I == {k \in 1..Len(remote) : remote[k].short_id = short_id}
    IN  IF up /\ I # {}
        THEN [success |-> TRUE, stdout |-> ShowStdout(remote[MinOf(I)])]
        ELSE [success |-> FALSE, stdout |-> << <<>> >>]

\* req_id.replace("REQ-", "").lstrip("0") if req_id else ""
ReqNum(req_id) ==
    IF req_id # <<>> THEN LStripChars(ReplaceAll(req_id, sREQ, <<>>), {"0"}) ELSE <<>>

\* the candidate short ids of lines 294-301
Patterns(req_id) ==
    IF ReqNum(req_id) # <<>>
    THEN << sREQ \o ReqNum(req_id),
            sREQ \o ZFill(ReplaceAll(req_id, sREQ, <<>>), 3),
            req_id >>
    ELSE <<>>

\* the comparison of lines 316-318
NamesMatch(name_normalized, title_normalized) ==
    \/ name_normalized = title_normalized
    \/ Contains(name_normalized, title_normalized)
    \/ Contains(title_normalized, name_normalized)

\* get_full_requirement_name(short_id) with its command run against remote
FullName(c, short_id) == get_full_requirement_name(short_id, c.success, c.stdout)

\* get_requirement_details(short_id) with its command run against remote
Details(c, short_id) == get_requirement_details(short_id, c.success, c.stdout)

\* lines 310-311: name = full_name if the lookup gave one
NameCompared(name, full_name) == IF full_name # <<>> THEN full_name ELSE name

\* lines 305-313 for every requirement of the snapshot: the name compared.
\* nameDown is the set of positions whose lookup command fails.
ResolvedNames(existing_reqs, remote, nameDown) ==
    [i \in 1..Len(existing_reqs) |->
        NameCompared(existing_reqs[i].name,
                     FullName(ShowCommand(remote, existing_reqs[i].short_id, i \notin nameDown),
                              existing_reqs[i].short_id))]

\* the positions the first loop (lines 304-318) accepts
ByName(names, title_normalized) ==
    {i \in 1..Len(names) : NamesMatch(normalize_name(names[i]), title_normalized)}

\* the positions the second loop (lines 333-338) accepts
ById(existing_reqs, patterns) ==
    {i \in 1..Len(existing_reqs) :
        \E k \in 1..Len(patterns) : existing_reqs[i].short_id = patterns[k]}

\* lines 327-330 and 347-350 were the id left as the listing gave it
FallbackWithoutId(req, by, name) ==
    [req EXCEPT !.name = IF by = "name" THEN name ELSE req.name]

\* lines 327-330 and 347-350 were the short id written over the name as well
FallbackRenaming(req, by, name) ==
    [req EXCEPT !.id = req.short_id, !.name = req.short_id]

\* lines 327-330 and 347-350: the snapshot's own dict, changed
Fallback(req, by, name) ==
    [req EXCEPT !.id = req.short_id, !.name = IF by = "name" THEN name ELSE req.name]

\* lines 321-326 and 341-346: the dict built from the details
Detailed(req, by, name, details, full_name2) ==
    [short_id |-> req.short_id,
     name |-> IF by = "name" THEN name ELSE NameCompared(req.name, full_name2),
     status |-> req.status,
     id |-> details.id]

\* lines 319-330 and 339-350: the requirement at position i was accepted by
\* the loop `by` under the name `name`; the details lookup gives the id, and
\* when it fails the short id stands in and the snapshot's own dict is
\* returned, changed
Resolve(existing_reqs, i, by, name, details, full_name2, nameCalls) ==
    IF details.ok
    THEN [found |-> TRUE,
          req |-> Detailed(existing_reqs[i], by, name, details, full_name2),
          reqs |-> existing_reqs, by |-> by, idx |-> i, detailed |-> TRUE,
          made |-> nameCalls \cup {<<"details", 0>>}
                   \cup (IF by = "short_id" THEN {<<"name2", 0>>} ELSE {})]
    ELSE [found |-> TRUE, req |-> Fallback(existing_reqs[i], by, name),
          reqs |-> [existing_reqs EXCEPT ![i] = Fallback(existing_reqs[i], by, name)],
          by |-> by, idx |-> i, detailed |-> FALSE,
          made |-> nameCalls \cup {<<"details", 0>>}]

\* the lookups of lines 320 and 342 for the requirement at position i
ResolveAt(existing_reqs, remote, i, by, name, detailsDown, name2Down, nameCalls) ==
    Resolve(existing_reqs, i, by, name,
            Details(ShowCommand(remote, existing_reqs[i].short_id, ~detailsDown),
                    existing_reqs[i].short_id),
            FullName(ShowCommand(remote, existing_reqs[i].short_id, ~name2Down),
                     existing_reqs[i].short_id),
            nameCalls)

NameCalls(n) == {<<"name", k>> : k \in 1..n}

\* find_existing_req were its second loop, over the short ids, run first
FindInIdFirst(existing_reqs, remote, names, byName, byId, detailsDown, name2Down) ==
    IF byId # {}
    THEN ResolveAt(existing_reqs, remote, MinOf(byId), "short_id", <<>>,
                   detailsDown, name2Down, {})
    ELSE IF byName # {}
    THEN ResolveAt(existing_reqs, remote, MinOf(byName), "name", names[MinOf(byName)],
                   detailsDown, name2Down, NameCalls(MinOf(byName)))
    ELSE [found |-> FALSE,
          req |-> [short_id |-> None, name |-> None, status |-> None, id |-> None],
          reqs |-> existing_reqs, by |-> "none", idx |-> 0, detailed |-> FALSE,
          made |-> NameCalls(Len(existing_reqs))]

\* the two loops of find_existing_req over the positions each accepts
FindIn(existing_reqs, remote, names, byName, byId, detailsDown, name2Down) ==
    IF byName # {}
    THEN ResolveAt(existing_reqs, remote, MinOf(byName), "name", names[MinOf(byName)],
                   detailsDown, name2Down, NameCalls(MinOf(byName)))
    ELSE IF byId # {}
    THEN ResolveAt(existing_reqs, remote, MinOf(byId), "short_id", <<>>,
                   detailsDown, name2Down, NameCalls(Len(existing_reqs)))
    ELSE [found |-> FALSE,
          req |-> [short_id |-> None, name |-> None, status |-> None, id |-> None],
          reqs |-> existing_reqs, by |-> "none", idx |-> 0, detailed |-> FALSE,
          made |-> NameCalls(Len(existing_reqs))]

\* find_existing_req over the names its first loop compares
FindNamed(title, req_id, existing_reqs, remote, names, detailsDown, name2Down) ==
    FindIn(existing_reqs, remote, names, ByName(names, normalize_name(title)),
           ById(existing_reqs, Patterns(req_id)), detailsDown, name2Down)

\* find_existing_req(title, req_id, existing_reqs).  Every "requirement show"
\* it issues may fail: nameDown is the set of positions of existing_reqs
\* whose name lookup fails, detailsDown and name2Down say whether the
\* details lookup and the name lookup of the short_id branch fail.
\* The result says whether a requirement was found, the dict returned (req),
\* existing_reqs as the call leaves it, and for the properties: which loop
\* found it (by), where (idx), whether the details lookup gave the id
\* (detailed) and the lookups issued (made).
find_existing_req(title, req_id, existing_reqs, remote, nameDown, detailsDown, name2Down) ==
    FindNamed(title, req_id, existing_reqs, remote,
              ResolvedNames(existing_reqs, remote, nameDown), detailsDown, name2Down)

\* the ways the lookups of one find_existing_req call may fail
LookupFailures(n) ==
    {[nameDown |-> N, detailsDown |-> d, name2Down |-> d2] :
        N \in SUBSET (1..n), d \in BOOLEAN, d2 \in BOOLEAN}

\* the lookups that fail under f
Failing(f) ==
    {<<"name", k>> : k \in f.nameDown}
    \cup (IF f.detailsDown THEN {<<"details", 0>>} ELSE {})
    \cup (IF f.name2Down THEN {<<"name2", 0>>} ELSE {})

(***************************************************************************)
(* RemoteClient: the effect of the mutating commands                       *)
(***************************************************************************)
RECURSIVE Decimal(_)
\* str(n) for n >= 0
Decimal(n) ==
    LET d == <<"0", "1", "2", "3", "4", "5", "6", "7", "8", "9">>[(n % 10) + 1]
    IN  IF n < 10 THEN <<d>> ELSE Decimal(n \div 10) \o <<d>>

\* "requirement create -n title -c content": Braingrid numbers the new
\* requirement and files it as PLANNED
CreateCommand(remote, title, content) ==
    Append(remote,
           [short_id |-> sREQ \o Decimal(Len(remote) + 1),
            id |-> <<"u">> \o Decimal(Len(remote) + 1),
            name |-> title,
            status |-> sPLANNED,
            content |-> content])

\* the requirements "requirement update <requirement_id>" addresses
Addressed(remote, requirement_id) ==
    {k \in 1..Len(remote) :
        remote[k].id = requirement_id \/ remote[k].short_id = requirement_id}

\* "requirement update <requirement_id> --status status"
UpdateCommand(remote, requirement_id, status) ==
    [k \in 1..Len(remote) |->
        IF k \in Addressed(remote, requirement_id)
        THEN [remote[k] EXCEPT !.status = status]
        ELSE remote[k]]

(***************************************************************************)
(* The local documents and the requirements Braingrid starts with          *)
(***************************************************************************)
KV(key, value) == key \o <<":", " ">> \o value

FileName(num) == sREQ \o num \o <<".", "m", "d">>

LogTitle == <<"L", "o", "g">>

LogSystemTitle == <<"L", "o", "g", " ", "S", "y", "s", "t", "e", "m">>

BarTitle == <<"B", "a", "r">>

BodyLine == <<"b", "o", "d", "y">>

\* the documents docs/plan/*/REQ-*.md may hold, in path order
DocUniverse ==
    << [name |-> FileName(<<"0", "0", "1">>), readable |-> TRUE, writable |-> TRUE,
        content |-> << sDashes,
                       KV(kReqId, sREQ \o <<"0", "0", "1">>),
                       KV(kTitle, LogTitle),
                       KV(kStatus, sInProgress),
                       sDashes, BodyLine >>],
       [name |-> FileName(<<"0", "0", "2">>), readable |-> TRUE, writable |-> FALSE,
        content |-> << sDashes,
                       KV(kReqId, sREQ \o <<"0", "0", "2">>),
                       KV(kTitle, <<"\"">> \o LogSystemTitle \o <<"\"">>),
                       KV(kStatus, sNotStarted),
                       sDashes, BodyLine >>],
       [name |-> FileName(<<"0", "0", "3">>), readable |-> TRUE, writable |-> TRUE,
        content |-> << sDashes,
                       KV(kReqId, sREQ \o <<"0", "0", "3">>),
                       KV(kStatus, sCompleted),
                       sDashes, BodyLine >>],
       [name |-> FileName(<<"0", "0", "4">>), readable |-> TRUE, writable |-> TRUE,
        content |-> << sDashes,
                       KV(kReqId, sREQ \o <<"0", "0", "4">>),
                       KV(kTitle, BarTitle),
                       KV(kStatus, <<"[">> \o sCompleted \o <<"]">>),
                       sDashes, BodyLine >>],
       [name |-> FileName(<<"0", "0", "5">>), readable |-> FALSE, writable |-> TRUE,
        content |-> << sDashes, KV(kTitle, BarTitle), sDashes >>] >>

\* at most MaxDocs documents exist in one run
MaxDocs == 2

RECURSIVE Pick(_, _)
\* the documents of DocUniverse at the positions of S, in path order
Pick(S, k) ==
    IF k > Len(DocUniverse) THEN <<>>
    ELSE (IF k \in S THEN <<DocUniverse[k]>> ELSE <<>>) \o Pick(S, k + 1)

LocalCollections ==
    {Pick(S, 1) : S \in {T \in SUBSET (1..Len(DocUniverse)) : Cardinality(T) <= MaxDocs}}

Requirement(n, name, status, content) ==
    [short_id |-> sREQ \o Decimal(n), id |-> <<"u">> \o Decimal(n),
     name |-> name, status |-> status, content |-> content]

PlainContent == << <<"t", "e", "x", "t">> >>

\* the requirements Braingrid holds when a run starts
RemoteUniverse ==
    { <<>>,
      << Requirement(1, LogTitle, sREVIEW, PlainContent) >>,
      << Requirement(1, BarTitle, sPLANNED, PlainContent) >>,
      << Requirement(1, BarTitle, sPLANNED, PlainContent),
         Requirement(2, LogTitle, sCOMPLETED, <<KV(kTitle, LogTitle), BodyLine>>) >> }

(***************************************************************************)
(* ReconciliationOrchestrator: the pure parts                              *)
(***************************************************************************)
sNoTitle == <<"N", "o", " ", "t", "i", "t", "l", "e">>
sFailedUpdate == <<"F", "a", "i", "l", "e", "d", " ", "t", "o", " ", "u", "p", "d", "a", "t", "e", " ">>
sFailedCreate == <<"F", "a", "i", "l", "e", "d", " ", "t", "o", " ", "c", "r", "e", "a", "t", "e", " ">>
sErrorUpdating == <<"E", "r", "r", "o", "r", " ", "u", "p", "d", "a", "t", "i", "n", "g", " ">>
\* str(e) of an exception caught in sync_req_file
sException == <<"e", "r", "r", "o", "r">>

\* f"Updated {title} ({short_id})" and f"Created {title} ({short_id})"
DoneMessage(verb, title, short_id) ==
    verb \o <<" ">> \o title \o <<" ", "(">> \o short_id \o <<")">>

\* get_local_req_files(): the documents in path order; a document is named
\* by its position in that order
get_local_req_files(files) == [k \in 1..Len(files) |-> k]

RECURSIVE LocalReqIds(_, _, _)
\* lines 494-499 for document k, whose metadata holds req_id
LocalReqId(files, k, req_ids, req_id) ==
    IF files[k].readable /\ req_id.t = "str" /\ req_id.v # <<>>
    THEN LocalReqIds(files, k + 1, Put(req_ids, req_id.v, k))
    ELSE LocalReqIds(files, k + 1, req_ids)

\* the for loop of get_local_req_ids from document k on
LocalReqIds(files, k, req_ids) ==
    IF k > Len(files) THEN req_ids
    ELSE LocalReqId(files, k, req_ids,
                    Get(read_req_file(files[k].content).metadata, kReqId, StrV(<<>>)))

\* get_local_req_ids(): req_id -> document
get_local_req_ids(files) == LocalReqIds(files, 1, EmptyDict)

\* short_id.replace("REQ-", "").strip()
ShortNum(short_id) == Strip(ReplaceAll(short_id, sREQ, <<>>))

\* the local ids a Braingrid short id may stand for (lines 514-522, 562-566)
PossibleIds(short_id) ==
    << sREQ \o ZFill(ShortNum(short_id), 3), sREQ \o ShortNum(short_id) >>

\* the document of the first of ids that local_req_ids holds, 0 when none
FirstHeld(ids, local_req_ids) ==
    IF ids[1] \in DOMAIN local_req_ids THEN local_req_ids[ids[1]]
    ELSE IF ids[2] \in DOMAIN local_req_ids THEN local_req_ids[ids[2]]
    ELSE 0

\* the local document of a Braingrid requirement, 0 when there is none
LocalFileOf(short_id, local_req_ids) == FirstHeld(PossibleIds(short_id), local_req_ids)

\* the short ids of a list of requirements
ShortIds(reqs) == [k \in 1..Len(reqs) |-> reqs[k].short_id]

\* sync_from_braingrid_to_local: the short ids reported as missing locally
\* among those of braingrid_reqs; the results it returns are always empty
MissingLocal(short_ids, local_req_ids) ==
    LET Missing(short_id) ==
            ShortNum(short_id) # <<>> /\ LocalFileOf(short_id, local_req_ids) = 0
    IN  SelectSeq(short_ids, Missing)

sync_from_braingrid_to_local(braingrid_reqs, local_req_ids) ==
    [results |-> <<>>, missing_local |-> MissingLocal(ShortIds(braingrid_reqs), local_req_ids)]

RECURSIVE RewriteStatusLines(_, _, _, _)
\* the for loop of lines 591-602 from line k on
RewriteStatusLines(lines, k, in_front_matter, mapped_status) ==
    IF k > Len(lines) THEN <<>>
    ELSE IF Strip(lines[k]) = sDashes
    THEN <<lines[k]>> \o RewriteStatusLines(lines, k + 1, ~in_front_matter, mapped_status)
    ELSE IF in_front_matter /\ StartsWith(lines[k], sStatusLine)
    THEN <<KV(kStatus, mapped_status)>>
         \o RewriteStatusLines(lines, k + 1, in_front_matter, mapped_status)
    ELSE <<lines[k]>> \o RewriteStatusLines(lines, k + 1, in_front_matter, mapped_status)

\* the exit status main ends with: the unpacking of line 702 raises
\* ValueError on a 2-tuple, and an uncaught exception exits with status 1
ExitStatus(all_results) ==
    LET Failed == {k \in 1..Len(all_results) : ~all_results[k][2]}
    IN  IF \E k \in 1..Len(all_results) : Len(all_results[k]) # 3
        THEN [code |-> 1, crashed |-> TRUE]
        ELSE IF Cardinality(Failed) > 0 THEN [code |-> 1, crashed |-> FALSE]
        ELSE [code |-> 0, crashed |-> FALSE]

(***************************************************************************)
(* The run of main()                                                       *)
(***************************************************************************)
VARIABLES
    direction,       \* args.direction
    update_status,   \* args.update_status
    dir_exists,      \* DOCS_PLAN_DIR.exists()
    files,           \* the local documents, in path order
    remote,          \* the requirements Braingrid holds
    pc,              \* where main() stands
    braingrid_reqs,  \* main's snapshot of the listing
    local_req_ids,   \* req_id -> document
    idx,             \* the document the local -> Braingrid loop is at
    cur,             \* the locals of sync_req_file between its remote calls
    results,         \* results of the local -> Braingrid loop
    ridx,            \* the requirement update_local_status_from_braingrid is at
    status_results,  \* results of update_local_status_from_braingrid
    all_results,     \* main's all_results
    missing_local,   \* the short ids reported as not in local files
    exit_code,       \* the exit status, -1 while running
    crashed,         \* main() ended in an uncaught exception
    faults,          \* remote commands that have failed in this run
    calls,           \* history: the remote commands and matches of this run
    writes,          \* history: the documents written in this run
    snap_creates,    \* history: creations that had succeeded when the snapshot was listed
    run,             \* the number of this run
    probe            \* a function of the script applied on its own: [fn, arg, out, done]

vars ==
    <<direction, update_status, dir_exists, files, remote, pc, braingrid_reqs,
      local_req_ids, idx, cur, results, ridx, status_results, all_results,
      missing_local, exit_code, crashed, faults, calls, writes, snap_creates, run, probe>>

\* remote commands that may fail in one run
MaxFaults == 2

\* runs of the script made one after the other
MaxRuns == 2

Directions == {"to-braingrid", "from-braingrid", "bidirectional"}

NoReq == [short_id |-> None, name |-> None, status |-> None, id |-> None]

NoCur == [title |-> <<>>, status |-> <<>>, existing_req |-> NoReq]

\* one entry of calls
Call(op, doc, id, status, title, ok) ==
    [op |-> op, doc |-> doc, id |-> id, status |-> status, title |-> title,
     ok |-> ok, by |-> "", short_id |-> None, snap |-> 0, detailed |-> FALSE]

Match(doc, title, found) ==
    [op |-> "match", doc |-> doc, id |-> found.req.id, status |-> None, title |-> title,
     ok |-> found.found, by |-> found.by, short_id |-> found.req.short_id,
     snap |-> snap_creates, detailed |-> found.detailed]

Creates(log) == {k \in 1..Len(log) : log[k].op = "create"}

Created(log) == {k \in Creates(log) : log[k].ok}

Updates(log) == {k \in 1..Len(log) : log[k].op \in {"update", "followup"}}

\* no function is applied on its own in a run of main()
NoProbe == [fn |-> "none", arg |-> <<>>, out |-> <<>>, done |-> TRUE]

Init ==
    /\ probe = NoProbe
    /\ direction \in Directions
    /\ update_status \in BOOLEAN
    /\ dir_exists \in BOOLEAN
    /\ files \in LocalCollections
    /\ remote \in RemoteUniverse
    /\ pc = "start"
    /\ braingrid_reqs = <<>>
    /\ local_req_ids = EmptyDict
    /\ idx = 1
    /\ cur = NoCur
    /\ results = <<>>
    /\ ridx = 1
    /\ status_results = <<>>
    /\ all_results = <<>>
    /\ missing_local = <<>>
    /\ exit_code = -1
    /\ crashed = FALSE
    /\ faults = 0
    /\ calls = <<>>
    /\ writes = <<>>
    /\ snap_creates = 0
    /\ run = 1

\* a remote command either succeeds or, while the run's failures last, fails
Outcome(up) ==
    /\ up \/ faults < MaxFaults
    /\ faults' = faults + (IF up THEN 0 ELSE 1)

\* "requirement list" as main and create_requirement call it
Listing(up) == list_braingrid_requirements(up, ListStdout(remote))

\* lines 639-655: the directory check, the first listing, the local documents
Start ==
    /\ pc = "start"
    /\ IF ~dir_exists
       THEN /\ pc' = "done"
            /\ exit_code' = 1
            /\ UNCHANGED <<braingrid_reqs, local_req_ids, faults, calls>>
       ELSE \E up \in BOOLEAN :
            /\ Outcome(up)
            /\ braingrid_reqs' = Listing(up)
            /\ calls' = Append(calls, Call("list", 0, None, None, None, up))
            /\ local_req_ids' = get_local_req_ids(files)
            /\ pc' = IF direction \in {"to-braingrid", "bidirectional"} THEN "sync" ELSE "from"
            /\ UNCHANGED exit_code
    /\ UNCHANGED <<probe, direction, update_status, dir_exists, files, remote, idx, cur, results,
                   ridx, status_results, all_results, missing_local, crashed, writes,
                   snap_creates, run>>

\* lines 667-670 were the refresh after a creation left out
FinishWithoutRefresh(success, message) ==
    /\ results' = Append(results, <<files[idx].name, success, message>>)
    /\ cur' = NoCur
    /\ pc' = "sync"
    /\ idx' = idx + 1

\* lines 667-670 were the loop to stop at the first failed document
FinishHaltingOnFailure(success, message) ==
    /\ results' = Append(results, <<files[idx].name, success, message>>)
    /\ cur' = NoCur
    /\ IF success /\ Contains(message, sCreated)
       THEN pc' = "refresh" /\ idx' = idx
       ELSE pc' = "sync" /\ idx' = IF success THEN idx + 1 ELSE Len(files) + 1

\* lines 667-670: the result of one document is appended; a successful
\* result whose message holds "Created" asks for a refresh of the snapshot
Finish(success, message) ==
    /\ results' = Append(results, <<files[idx].name, success, message>>)
    /\ cur' = NoCur
    /\ IF success /\ Contains(message, sCreated)
       THEN pc' = "refresh" /\ idx' = idx
       ELSE pc' = "sync" /\ idx' = idx + 1

\* lines 447-450 were sync_req_file to take the create branch whatever
\* find_existing_req gave
SyncMatchedCreating(title, status, f, found) ==
    /\ Failing(f) \subseteq found.made
    /\ faults + Cardinality(Failing(f)) <= MaxFaults
    /\ faults' = faults + Cardinality(Failing(f))
    /\ braingrid_reqs' = found.reqs
    /\ calls' = Append(calls, Match(idx, title, found))
    /\ cur' = [title |-> title, status |-> status, existing_req |-> found.req]
    /\ pc' = "create"
    /\ UNCHANGED <<idx, results>>

\* lines 447-450: what find_existing_req gave under the lookup failures f
SyncMatched(title, status, f, found) ==
    /\ Failing(f) \subseteq found.made
    /\ faults + Cardinality(Failing(f)) <= MaxFaults
    /\ faults' = faults + Cardinality(Failing(f))
    /\ braingrid_reqs' = found.reqs
    /\ calls' = Append(calls, Match(idx, title, found))
    /\ cur' = [title |-> title, status |-> status, existing_req |-> found.req]
    /\ pc' = IF found.found THEN "update" ELSE "create"
    /\ UNCHANGED <<idx, results>>

\* lines 437-450 and 470-474 were the title not checked at lines 443-445
SyncFieldsIgnoringTitle(file, req_id, title, local_status) ==
    IF ~file.readable \/ local_status.t = "list"
    THEN /\ Finish(FALSE, sException)
         /\ UNCHANGED <<braingrid_reqs, faults, calls>>
    ELSE IF title.t = "list" \/ (req_id.t = "list" /\ Truthy(req_id))
    THEN /\ Finish(FALSE, sException)
         /\ UNCHANGED <<braingrid_reqs, faults, calls>>
    ELSE \E f \in LookupFailures(Len(braingrid_reqs)) :
         SyncMatched(title.v, map_status(local_status.v), f,
                     find_existing_req(title.v, req_id.v, braingrid_reqs, remote,
                                       f.nameDown, f.detailsDown, f.name2Down))

\* lines 437-450 and 470-474 over the metadata fields of the document
SyncFields(file, req_id, title, local_status) ==
    IF ~file.readable \/ local_status.t = "list"
    THEN \* open() or map_status raises
         /\ Finish(FALSE, sException)
         /\ UNCHANGED <<braingrid_reqs, faults, calls>>
    ELSE IF ~Truthy(title)
    THEN /\ Finish(FALSE, sNoTitle)
         /\ UNCHANGED <<braingrid_reqs, faults, calls>>
    ELSE IF title.t = "list" \/ (req_id.t = "list" /\ Truthy(req_id))
    THEN \* normalize_name or req_id.replace raises
         /\ Finish(FALSE, sException)
         /\ UNCHANGED <<braingrid_reqs, faults, calls>>
    ELSE \E f \in LookupFailures(Len(braingrid_reqs)) :
         SyncMatched(title.v, map_status(local_status.v), f,
                     find_existing_req(title.v, req_id.v, braingrid_reqs, remote,
                                       f.nameDown, f.detailsDown, f.name2Down))

\* lines 436-440: the fields read from the metadata
SyncMetadata(file, metadata) ==
    SyncFields(file, Get(metadata, kReqId, StrV(<<>>)), Get(metadata, kTitle, StrV(<<>>)),
               Get(metadata, kStatus, StrV(sNotStarted)))

\* sync_req_file up to find_existing_req (lines 433-450, 470-474)
SyncRead ==
    /\ pc = "sync"
    /\ idx <= Len(get_local_req_files(files))
    /\ SyncMetadata(files[idx], read_req_file(files[idx].content).metadata)
    /\ UNCHANGED <<probe, direction, update_status, dir_exists, files, remote, local_req_ids,
                   ridx, status_results, all_results, missing_local, exit_code, crashed,
                   writes, snap_creates, run>>

\* update_requirement_status(requirement_id, status) issued for document doc:
\* no command without an id; the command succeeds when Braingrid is up and
\* holds the requirement.  success is the value the function returns.
UpdateStatus(op, requirement_id, status, success) ==
    IF requirement_id = <<>>
    THEN /\ success = FALSE
         /\ UNCHANGED <<remote, faults, calls>>
    ELSE \E up \in BOOLEAN :
         /\ Outcome(up)
         /\ success = (up /\ Addressed(remote, requirement_id) # {})
         /\ remote' = IF up THEN UpdateCommand(remote, requirement_id, status) ELSE remote
         /\ calls' = Append(calls, Call(op, idx, requirement_id, status, cur.title, success))

\* the update branch of sync_req_file (lines 452-460) with update_requirement
SyncUpdate ==
    /\ pc = "update"
    /\ \E success \in BOOLEAN :
        /\ IF cur.status # <<>>
           THEN UpdateStatus("update", cur.existing_req.id, cur.status, success)
           ELSE success = TRUE /\ UNCHANGED <<remote, faults, calls>>
        /\ IF success
           THEN Finish(TRUE, DoneMessage(sUpdated, cur.title,
                                         cur.existing_req.short_id))
           ELSE Finish(FALSE, sFailedUpdate \o cur.title)
    /\ UNCHANGED <<probe, direction, update_status, dir_exists, files, braingrid_reqs,
                   local_req_ids, ridx, status_results, all_results, missing_local,
                   exit_code, crashed, writes, snap_creates, run>>

\* the create branch of sync_req_file: the create command (lines 357-368)
SyncCreate ==
    /\ pc = "create"
    /\ \E up \in BOOLEAN :
        /\ Outcome(up)
        /\ calls' = Append(calls, Call("create", idx, None, cur.status, cur.title, up))
        /\ IF up
           THEN /\ remote' = CreateCommand(remote, cur.title, read_req_file(files[idx].content).content)
                /\ pc' = "created"
                /\ UNCHANGED <<idx, cur, results>>
           ELSE /\ Finish(FALSE, sFailedCreate \o cur.title)
                /\ UNCHANGED remote
    /\ UNCHANGED <<probe, direction, update_status, dir_exists, files, braingrid_reqs,
                   local_req_ids, ridx, status_results, all_results, missing_local,
                   exit_code, crashed, writes, snap_creates, run>>

\* f"Created {title} ({short_id})" of line 465-466
CreatedMessage(title, created) ==
    DoneMessage(sCreated, title, IF created.found THEN created.req.short_id ELSE <<"?">>)

\* lines 373-382: what the search for the new requirement gave
CreateFound(up, down, f, created) ==
    /\ Failing(f) \subseteq created.made
    /\ faults + down <= MaxFaults
    /\ faults' = faults + down
    /\ calls' = Append(calls, Call("list", idx, None, None, None, up))
    /\ IF created.found /\ cur.status # <<>> /\ cur.status # sPLANNED
          /\ created.req.id # <<>>
       THEN /\ pc' = "followup"
            /\ cur' = [cur EXCEPT !.existing_req = created.req]
            /\ UNCHANGED <<idx, results>>
       ELSE Finish(TRUE, CreatedMessage(cur.title, created))

\* lines 371-373: the search over the requirements listed
CreateListed(up, reqs) ==
    \E f \in LookupFailures(Len(reqs)) :
        CreateFound(up, Cardinality(Failing(f)) + (IF up THEN 0 ELSE 1), f,
                    find_existing_req(cur.title, <<>>, reqs, remote,
                                      f.nameDown, f.detailsDown, f.name2Down))

\* create_requirement after the command: list again, find the new
\* requirement (lines 370-382)
CreateLookup ==
    /\ pc = "created"
    /\ \E up \in BOOLEAN : CreateListed(up, Listing(up))
    /\ UNCHANGED <<probe, direction, update_status, dir_exists, files, remote, braingrid_reqs,
                   local_req_ids, ridx, status_results, all_results, missing_local,
                   exit_code, crashed, writes, snap_creates, run>>

\* line 379: the status update after a creation; its result is dropped
CreateFollowup ==
    /\ pc = "followup"
    /\ \E success \in BOOLEAN :
        UpdateStatus("followup", cur.existing_req.id, cur.status, success)
    /\ Finish(TRUE, DoneMessage(sCreated, cur.title, cur.existing_req.short_id))
    /\ UNCHANGED <<probe, direction, update_status, dir_exists, files, braingrid_reqs,
                   local_req_ids, ridx, status_results, all_results, missing_local,
                   exit_code, crashed, writes, snap_creates, run>>

\* line 670: the snapshot is listed again
Refresh ==
    /\ pc = "refresh"
    /\ \E up \in BOOLEAN :
        /\ Outcome(up)
        /\ braingrid_reqs' = Listing(up)
        /\ calls' = Append(calls, Call("list", idx, None, None, None, up))
    /\ snap_creates' = Cardinality(Created(calls))
    /\ idx' = idx + 1
    /\ pc' = "sync"
    /\ UNCHANGED <<probe, direction, update_status, dir_exists, files, remote, local_req_ids,
                   cur, results, ridx, status_results, all_results, missing_local,
                   exit_code, crashed, writes, run>>

\* lines 673-680: the loop is over
SyncDone ==
    /\ pc = "sync"
    /\ idx > Len(get_local_req_files(files))
    /\ all_results' = all_results \o results
    /\ pc' = IF direction = "bidirectional" THEN "from" ELSE "summary"
    /\ UNCHANGED <<probe, direction, update_status, dir_exists, files, remote, braingrid_reqs,
                   local_req_ids, idx, cur, results, ridx, status_results, missing_local,
                   exit_code, crashed, faults, calls, writes, snap_creates, run>>

\* lines 686-696 were the statuses rewritten whatever --update-status says
FromBraingridAlwaysRewriting ==
    /\ pc = "from"
    /\ missing_local' = sync_from_braingrid_to_local(braingrid_reqs, local_req_ids).missing_local
    /\ all_results' =
           all_results \o sync_from_braingrid_to_local(braingrid_reqs, local_req_ids).results
    /\ pc' = "rewrite"
    /\ UNCHANGED <<probe, direction, update_status, dir_exists, files, remote, braingrid_reqs,
                   local_req_ids, idx, cur, results, ridx, status_results, exit_code,
                   crashed, faults, calls, writes, snap_creates, run>>

\* lines 686-696: the report of requirements missing locally, then the
\* choice made by --update-status
FromBraingrid ==
    /\ pc = "from"
    /\ missing_local' = sync_from_braingrid_to_local(braingrid_reqs, local_req_ids).missing_local
    /\ all_results' =
           all_results \o sync_from_braingrid_to_local(braingrid_reqs, local_req_ids).results
    /\ pc' = IF update_status THEN "rewrite" ELSE "summary"
    /\ UNCHANGED <<probe, direction, update_status, dir_exists, files, remote, braingrid_reqs,
                   local_req_ids, idx, cur, results, ridx, status_results, exit_code,
                   crashed, faults, calls, writes, snap_creates, run>>

\* f"Updated {local_file.name}: {local_status} -> {mapped_status}"
RewriteMessage(name, local_status, mapped_status) ==
    sUpdated \o <<" ">> \o name \o <<":", " ">>
    \o (IF local_status.t = "str" THEN local_status.v
        ELSE <<"[">>
             \o JoinWith([k \in 1..Len(local_status.v) |->
                              <<"'">> \o local_status.v[k] \o <<"'">>], <<",", " ">>)
             \o <<"]">>)
    \o <<" ", "U2192", " ">> \o mapped_status

\* lines 574-612: the document local_file against the mapped status
RewriteFile(short_id, local_file, file, local_status, mapped_status) ==
    IF ~file.readable
    THEN /\ status_results' = Append(status_results, <<FALSE, sErrorUpdating \o file.name>>)
         /\ UNCHANGED <<files, writes>>
    ELSE IF local_status = StrV(mapped_status)
    THEN UNCHANGED <<files, status_results, writes>>
    ELSE IF ~file.writable
    THEN /\ status_results' = Append(status_results, <<FALSE, sErrorUpdating \o file.name>>)
         /\ UNCHANGED <<files, writes>>
    ELSE /\ files' = [files EXCEPT ![local_file].content =
                JoinLines(RewriteStatusLines(read_req_file(file.content).content, 1, FALSE,
                                             mapped_status))]
         /\ writes' = Append(writes, [file |-> local_file, req |-> short_id,
                                      status |-> mapped_status])
         /\ status_results' = Append(status_results,
                <<TRUE, RewriteMessage(file.name, local_status, mapped_status)>>)

\* lines 555-573: the local document of the requirement req, if any
RewriteFor(req, local_file) ==
    IF req.short_id = <<>> \/ req.status = <<>> \/ local_file = 0
    THEN UNCHANGED <<files, status_results, writes>>
    ELSE RewriteFile(req.short_id, local_file, files[local_file],
                     Get(read_req_file(files[local_file].content).metadata, kStatus,
                         StrV(<<>>)),
                     reverse_map_status(req.status))

\* one pass of the for loop of update_local_status_from_braingrid
\* (lines 554-612)
RewriteLocalStatus ==
    /\ pc = "rewrite"
    /\ ridx <= Len(braingrid_reqs)
    /\ RewriteFor(braingrid_reqs[ridx],
                  LocalFileOf(braingrid_reqs[ridx].short_id, local_req_ids))
    /\ ridx' = ridx + 1
    /\ UNCHANGED <<probe, direction, update_status, dir_exists, remote, pc, braingrid_reqs,
                   local_req_ids, idx, cur, results, all_results, missing_local, exit_code,
                   crashed, faults, calls, snap_creates, run>>

\* line 693: the loop is over and its results join all_results
RewriteDone ==
    /\ pc = "rewrite"
    /\ ridx > Len(braingrid_reqs)
    /\ all_results' = all_results \o status_results
    /\ pc' = "summary"
    /\ UNCHANGED <<probe, direction, update_status, dir_exists, files, remote, braingrid_reqs,
                   local_req_ids, idx, cur, results, ridx, status_results, missing_local,
                   exit_code, crashed, faults, calls, writes, snap_creates, run>>

\* lines 698-720: the summary and the exit status
Summary ==
    /\ pc = "summary"
    /\ exit_code' = ExitStatus(all_results).code
    /\ crashed' = ExitStatus(all_results).crashed
    /\ pc' = "done"
    /\ UNCHANGED <<probe, direction, update_status, dir_exists, files, remote, braingrid_reqs,
                   local_req_ids, idx, cur, results, ridx, status_results, all_results,
                   missing_local, faults, calls, writes, snap_creates, run>>

Next ==
    \/ Start
    \/ SyncRead
    \/ SyncUpdate
    \/ SyncCreate
    \/ CreateLookup
    \/ CreateFollowup
    \/ Refresh
    \/ SyncDone
    \/ FromBraingrid
    \/ RewriteLocalStatus
    \/ RewriteDone
    \/ Summary

Spec == Init /\ [][Next]_vars

\* the script is run again after a run that got past the directory check:
\* a new process starts from the documents and the requirements the last
\* run left
Rerun ==
    /\ pc = "done"
    /\ dir_exists
    /\ run < MaxRuns
    /\ run' = run + 1
    /\ pc' = "start"
    /\ braingrid_reqs' = <<>>
    /\ local_req_ids' = EmptyDict
    /\ idx' = 1
    /\ cur' = NoCur
    /\ results' = <<>>
    /\ ridx' = 1
    /\ status_results' = <<>>
    /\ all_results' = <<>>
    /\ missing_local' = <<>>
    /\ exit_code' = -1
    /\ crashed' = FALSE
    /\ calls' = <<>>
    /\ writes' = <<>>
    /\ snap_creates' = 0
    /\ UNCHANGED <<probe, direction, update_status, dir_exists, files, remote, faults>>

NextTwice == Next \/ Rerun

SpecTwice == Init /\ [][NextTwice]_vars

(***************************************************************************)
(* Braingrid -> local runs with --update-status, one after the other, over *)
(* documents whose bodies hold delimiter and status lines                  *)
(***************************************************************************)
\* the documents the status rewrite is run over, in path order
RewriteDocUniverse ==
    << [name |-> FileName(<<"0", "0", "1">>), readable |-> TRUE, writable |-> TRUE,
        content |-> << sDashes,
                       KV(kReqId, sREQ \o <<"0", "0", "1">>),
                       KV(kTitle, LogTitle),
                       KV(kStatus, sInProgress),
                       sDashes, BodyLine, sDashes, KV(kStatus, sDraft) >>],
       [name |-> FileName(<<"0", "0", "2">>), readable |-> TRUE, writable |-> TRUE,
        content |-> << sDashes,
                       KV(kReqId, sREQ \o <<"0", "0", "2">>),
                       KV(kTitle, BarTitle),
                       sDashes, BodyLine >>],
       [name |-> FileName(<<"0", "0", "3">>), readable |-> TRUE, writable |-> TRUE,
        content |-> << sDashes,
                       KV(kReqId, sREQ \o <<"0", "0", "3">>),
                       KV(kTitle, LogSystemTitle),
                       KV(kStatus, sCompleted),
                       sDashes, KV(kStatus, sDraft), BodyLine >>] >>

RECURSIVE PickOf(_, _, _)
\* the documents of universe at the positions of S, in path order
PickOf(universe, S, k) ==
    IF k > Len(universe) THEN <<>>
    ELSE (IF k \in S THEN <<universe[k]>> ELSE <<>>) \o PickOf(universe, S, k + 1)

RewriteCollections ==
    {PickOf(RewriteDocUniverse, S, 1) :
        S \in {T \in SUBSET (1..Len(RewriteDocUniverse)) : Cardinality(T) <= MaxDocs}}

\* the requirements Braingrid holds in these runs: every status occurs
RewriteRemotes ==
    {<< Requirement(1, LogTitle, s, PlainContent), Requirement(2, BarTitle, t, PlainContent) >> :
        s \in {sPLANNED, sIN_PROGRESS, sREVIEW, sCOMPLETED}, t \in {sPLANNED, sREVIEW}}
    \cup {<< Requirement(3, LogSystemTitle, s, PlainContent) >> :
             s \in {sPLANNED, sIN_PROGRESS, sREVIEW, sCOMPLETED}}

InitRewrite ==
    /\ probe = NoProbe
    /\ direction = "from-braingrid"
    /\ update_status = TRUE
    /\ dir_exists \in BOOLEAN
    /\ files \in RewriteCollections
    /\ remote \in RewriteRemotes
    /\ pc = "start"
    /\ braingrid_reqs = <<>>
    /\ local_req_ids = EmptyDict
    /\ idx = 1
    /\ cur = NoCur
    /\ results = <<>>
    /\ ridx = 1
    /\ status_results = <<>>
    /\ all_results = <<>>
    /\ missing_local = <<>>
    /\ exit_code = -1
    /\ crashed = FALSE
    /\ faults = 0
    /\ calls = <<>>
    /\ writes = <<>>
    /\ snap_creates = 0
    /\ run = 1

NextRewrite ==
    \/ Start
    \/ FromBraingrid
    \/ RewriteLocalStatus
    \/ RewriteDone
    \/ Summary
    \/ Rerun

SpecRewrite == InitRewrite /\ [][NextRewrite]_vars

(***************************************************************************)
(* Runs of the local -> Braingrid half over documents whose titles differ  *)
(***************************************************************************)
InitBatch ==
    /\ probe = NoProbe
    /\ direction = "to-braingrid"
    /\ update_status \in BOOLEAN
    /\ dir_exists \in BOOLEAN
    /\ files \in RewriteCollections
    /\ remote \in RemoteUniverse
    /\ pc = "start"
    /\ braingrid_reqs = <<>>
    /\ local_req_ids = EmptyDict
    /\ idx = 1
    /\ cur = NoCur
    /\ results = <<>>
    /\ ridx = 1
    /\ status_results = <<>>
    /\ all_results = <<>>
    /\ missing_local = <<>>
    /\ exit_code = -1
    /\ crashed = FALSE
    /\ faults = 0
    /\ calls = <<>>
    /\ writes = <<>>
    /\ snap_creates = 0
    /\ run = 1

NextBatch ==
    \/ Start
    \/ SyncRead
    \/ SyncUpdate
    \/ SyncCreate
    \/ CreateLookup
    \/ CreateFollowup
    \/ Refresh
    \/ SyncDone
    \/ Summary

SpecBatch == InitBatch /\ [][NextBatch]_vars


(***************************************************************************)
(* The rendering of a metadata mapping as a delimited header.  The script  *)
(* holds no renderer: this one writes the three value shapes the parser    *)
(* reads, a scalar and the items of a list between double quotes, an empty *)
(* list as [].  A mapping is a list of entries [key, value, style].        *)
(***************************************************************************)
Quoted(v) == <<"\"">> \o v \o <<"\"">>

QuotedItems(items) == [k \in 1..Len(items) |-> Quoted(items[k])]

\* key: "value"
RenderScalar(key, value) == << KV(key, Quoted(value)) >>

\* key: ["a", "b"]
RenderInline(key, items) ==
    << KV(key, <<"[">> \o JoinWith(QuotedItems(items), <<",", " ">>) \o <<"]">>) >>

\* key: and one line `  - "item"` for each item
RenderBlock(key, items) ==
    << key \o <<":">> >>
    \o [k \in 1..Len(items) |-> <<" ", " ", "-", " ">> \o Quoted(items[k])]

RenderEntry(e) ==
    IF e.value.t = "str" THEN RenderScalar(e.key, e.value.v)
    ELSE IF e.value.v = <<>> THEN RenderInline(e.key, <<>>)
    ELSE IF e.style = "inline" THEN RenderInline(e.key, e.value.v)
    ELSE RenderBlock(e.key, e.value.v)

RECURSIVE RenderEntries(_, _)
RenderEntries(entries, k) ==
    IF k > Len(entries) THEN <<>>
    ELSE RenderEntry(entries[k]) \o RenderEntries(entries, k + 1)

\* the header between its delimiters
Render(entries) == <<sDashes>> \o RenderEntries(entries, 1) \o <<sDashes>>

RECURSIVE MappingFrom(_, _, _)
MappingFrom(entries, k, d) ==
    IF k > Len(entries) THEN d
    ELSE MappingFrom(entries, k + 1, Put(d, entries[k].key, entries[k].value))

\* the mapping the entries stand for
Mapping(entries) == MappingFrom(entries, 1, EmptyDict)

(***************************************************************************)
(* The functions of the script applied on their own: probe holds the       *)
(* function, its argument and, once it has returned, its result            *)
(***************************************************************************)
\* the elements of a list
Range(seq) == {seq[k] : k \in 1..Len(seq)}

Input(fn, arg) == [fn |-> fn, arg |-> arg, out |-> <<>>, done |-> FALSE]

\* the statuses given to map_status and reverse_map_status: those of the
\* two tables and others
StatusInputs ==
    DOMAIN STATUS_MAP \cup DOMAIN REVERSE_STATUS_MAP
    \cup { <<>>, sDraft, Lower(sCompleted), Lower(sREVIEW), sCompleted \o <<" ">>,
           <<"D", "o", "n", "e">>, <<"B", "L", "O", "C", "K", "E", "D">> }

LongTitle ==
    <<"L", "o", "g", " ", "R", "o", "t", "a", "t", "i", "o", "n", " ", "A", "n", "d", " ",
      "R", "e", "t", "e", "n", "t", "i", "o", "n">>

\* the titles, hints and requirements find_existing_req is applied to; the
\* name of the last requirement is cut by the listing
FindInputs ==
    [title : {LogTitle, LogSystemTitle, BarTitle, LongTitle},
     req_id : {<<>>, sREQ \o <<"0", "0", "1">>, sREQ \o <<"2">>},
     remote : (RemoteUniverse \ {<<>>})
              \cup {<< Requirement(1, LongTitle, sIN_PROGRESS, PlainContent) >>}]

\* the identifier hints the candidates are built from
HintInputs ==
    { <<>>, sREQ, <<"7">>, <<"0", "0", "7">>, <<"0">> }
    \cup {sREQ \o n : n \in { <<"1">>, <<"0", "0", "1">>, <<"1", "2">>, <<"0", "1", "0">>,
                              <<"1", "2", "3", "4">>, <<"0">>, <<"0", "0", "0">> }}

\* the titles normalize_name is applied to, alone and followed by one of
\* the qualifiers of its list
TitleInputs ==
    { LogTitle, LogSystemTitle, <<" ">> \o LogTitle \o <<" ">>,
      sREQ \o <<"0", "0", "1", ":", " ">> \o LogTitle,
      sREQ \o <<"0", "0", "2", ":", " ">> \o LogSystemTitle,
      LogSystemTitle \o <<":", " ">> \o BarTitle,
      BarTitle \o <<" ", "L", "a", "y", "e", "r">>,
      <<"L", "O", "G", " ", "S", "Y", "S">> }

NormalizeInputs == [title : TitleInputs, qualifier : {<<>>} \cup Range(NameSuffixes)]

\* the texts parse_yaml_front_matter is applied to: texts that do not open
\* with ---, texts that open with it and are not closed, and closed ones
TextInputs ==
    { << <<>> >>,
      << BodyLine >>,
      << KV(kTitle, LogTitle), sDashes >>,
      << <<" ">> \o sDashes, KV(kTitle, LogTitle), sDashes >>,
      << BodyLine, sDashes, KV(kTitle, LogTitle), sDashes >>,
      << <<>>, sDashes, KV(kTitle, LogTitle), sDashes >>,
      << sDashes >>,
      << sDashes, KV(kTitle, LogTitle) >>,
      << sDashes, KV(kTitle, LogTitle), BodyLine, <<"-", "-">> >>,
      << sDashes, KV(kTitle, LogTitle), sDashes \o <<"-">> >>,
      << sDashes \o <<"-">>, KV(kTitle, LogTitle), BodyLine >>,
      << sDashes, KV(kTitle, LogTitle), sDashes \o BodyLine >>,
      << sDashes, KV(kTitle, LogTitle), sDashes, BodyLine >>,
      << sDashes, KV(kTitle, LogTitle), <<" ">> \o sDashes \o <<" ">>, BodyLine, sDashes >>,
      << sDashes, sDashes >> }

kTags == <<"t", "a", "g", "s">>

\* the values of the mappings rendered and parsed again: scalars (empty,
\* plain, with quotes, with brackets, with a comma) and lists (empty, of
\* plain items, of items with quotes or brackets)
ScalarInputs ==
    { <<>>, LogTitle, LogSystemTitle, Quoted(LogTitle), <<"[">> \o LogTitle \o <<"]">>,
      <<"[", "]">>, <<"a", ",", " ", "b">>, <<"'">> \o BarTitle }

ListInputs ==
    { <<>>, <<LogTitle>>, <<LogTitle, BarTitle>>, <<LogSystemTitle, LogTitle>>,
      << <<"[">> \o LogTitle \o <<"]">> >>, << Quoted(LogTitle) >> }

Entry(key, value, style) == [key |-> key, value |-> value, style |-> style]

\* mappings of one key, and of a list followed by a scalar
MappingInputs ==
    {<< Entry(kTitle, StrV(v), "scalar") >> : v \in ScalarInputs}
    \cup {<< Entry(kTags, ListV(l), st) >> : l \in ListInputs, st \in {"inline", "block"}}
    \cup {<< Entry(kTags, ListV(l), st), Entry(kTitle, StrV(v), "scalar") >> :
             l \in {<<>>, <<LogTitle, BarTitle>>}, st \in {"inline", "block"},
             v \in {<<>>, LogTitle}}

\* the lines a listing is made of: rows with and without icon, rows of one
\* and two tokens, rows without a name, a footer
RowInputs ==
    { ListRow(Requirement(1, LogSystemTitle, sREVIEW, PlainContent)),
      sREQ \o <<"2", " ", " ">> \o sPLANNED \o <<" ">> \o BarTitle \o <<" ">> \o sNA,
      sREQ \o <<"3", " ">> \o sPLANNED,
      sREQ \o <<"4">>,
      sREQ \o <<"5", " ", cMemo, " ">> \o sPLANNED \o <<" ", " ">> \o sNA \o <<" ", "0", "%">>,
      sREQ \o <<"6", " ", cCheck, " ">> \o sCOMPLETED,
      <<"3", " ", "r", "e", "q", "s", " ", "1", "0", "0", "%">> }

\* listings: rows under the header of "requirement list", rows around a
\* separator alone, rows without any separator
ListingInputs ==
    {SubSeq(ListStdout(<<>>), 1, 4) \o <<a, b>> : a, b \in RowInputs}
    \cup {<<a, <<cBox, cBox, cBox>>, b>> : a, b \in RowInputs}
    \cup {<<a, b>> : a, b \in RowInputs}

ProbeInputs ==
    {Input("map_status", a) : a \in StatusInputs}
    \cup {Input("reverse_map_status", a) : a \in StatusInputs}
    \cup {Input("find_existing_req", a) : a \in FindInputs}
    \cup {Input("patterns", a) : a \in HintInputs}
    \cup {Input("normalize_name", a) : a \in NormalizeInputs}
    \cup {Input("parse_yaml_front_matter", a) : a \in TextInputs}
    \cup {Input("render", a) : a \in MappingInputs}
    \cup {Input("list_braingrid_requirements", a) : a \in ListingInputs}

InitFunctions ==
    /\ probe \in ProbeInputs
    /\ direction = "to-braingrid"
    /\ update_status = FALSE
    /\ dir_exists = TRUE
    /\ files = <<>>
    /\ remote = <<>>
    /\ pc = "probe"
    /\ braingrid_reqs = <<>>
    /\ local_req_ids = EmptyDict
    /\ idx = 1
    /\ cur = NoCur
    /\ results = <<>>
    /\ ridx = 1
    /\ status_results = <<>>
    /\ all_results = <<>>
    /\ missing_local = <<>>
    /\ exit_code = -1
    /\ crashed = FALSE
    /\ faults = 0
    /\ calls = <<>>
    /\ writes = <<>>
    /\ snap_creates = 0
    /\ run = 1

\* the function returns out
Return(out) ==
    /\ probe' = [probe EXCEPT !.out = out, !.done = TRUE]
    /\ UNCHANGED <<direction, update_status, dir_exists, files, remote, pc, braingrid_reqs,
                   local_req_ids, idx, cur, results, ridx, status_results, all_results,
                   missing_local, exit_code, crashed, faults, calls, writes, snap_creates,
                   run>>

CallMapStatus ==
    /\ probe.fn = "map_status"
    /\ ~probe.done
    /\ Return(map_status(probe.arg))

CallReverseMapStatus ==
    /\ probe.fn = "reverse_map_status"
    /\ ~probe.done
    /\ Return(reverse_map_status(probe.arg))

\* find_existing_req called a second time with the arguments of the first
\* call, on the snapshot as the first call left it; the lookups answer the
\* second call as they answered the first
FindAgain(title, req_id, snapshot, held, f, first) ==
    /\ Failing(f) \subseteq first.made
    /\ Return([snapshot |-> snapshot, f |-> f, first |-> first,
               second |-> find_existing_req(title, req_id, first.reqs, held, f.nameDown,
                                            f.detailsDown, f.name2Down)])

FindOver(title, req_id, snapshot, held) ==
    \E f \in LookupFailures(Len(snapshot)) :
        FindAgain(title, req_id, snapshot, held, f,
                  find_existing_req(title, req_id, snapshot, held, f.nameDown,
                                    f.detailsDown, f.name2Down))

\* the snapshot is the listing of the requirements Braingrid holds
CallFind ==
    /\ probe.fn = "find_existing_req"
    /\ ~probe.done
    /\ FindOver(probe.arg.title, probe.arg.req_id,
                list_braingrid_requirements(TRUE, ListStdout(probe.arg.remote)),
                probe.arg.remote)

\* lines 293-301 of find_existing_req
CallPatterns ==
    /\ probe.fn = "patterns"
    /\ ~probe.done
    /\ Return(Patterns(probe.arg))

\* normalize_name of a title and of the title followed by a qualifier
CallNormalizeName ==
    /\ probe.fn = "normalize_name"
    /\ ~probe.done
    /\ Return([plain |-> normalize_name(probe.arg.title),
               qualified |-> normalize_name(probe.arg.title \o probe.arg.qualifier)])

CallParse ==
    /\ probe.fn = "parse_yaml_front_matter"
    /\ ~probe.done
    /\ Return(parse_yaml_front_matter(probe.arg))

\* parse_yaml_front_matter of the header a mapping is rendered as
CallParseRendered ==
    /\ probe.fn = "render"
    /\ ~probe.done
    /\ Return(parse_yaml_front_matter(Render(probe.arg)).metadata)

\* list_braingrid_requirements over the stdout of a command that succeeded
CallList ==
    /\ probe.fn = "list_braingrid_requirements"
    /\ ~probe.done
    /\ Return(list_braingrid_requirements(TRUE, probe.arg))

NextFunctions ==
    \/ CallList
    \/ CallParseRendered
    \/ CallParse
    \/ CallNormalizeName
    \/ CallMapStatus
    \/ CallReverseMapStatus
    \/ CallFind
    \/ CallPatterns

SpecFunctions == InitFunctions /\ [][NextFunctions]_vars

(***************************************************************************)
(* Properties.  They read the histories: calls holds, in order, the remote *)
(* commands of the run and one "match" entry per find_existing_req call of *)
(* sync_req_file; writes holds the documents rewritten.                    *)
(***************************************************************************)
\* the entries of the log made for document doc
CallsOf(log, doc, ops) == {k \in 1..Len(log) : log[k].doc = doc /\ log[k].op \in ops}

\* the documents whose outcome is recorded
Recorded == 1..Len(results)

\* the local -> Braingrid loop is over
BatchOver ==
    /\ direction \in {"to-braingrid", "bidirectional"}
    /\ pc \in {"from", "rewrite", "summary", "done"}
    /\ dir_exists

\* C1: a second run made after a first, nothing having failed and nothing
\* having changed in between, issues no create command and no status update
\* and writes no document.
C1_SecondRunIssuesNothing ==
    (run >= 2 /\ faults = 0) =>
        /\ Creates(calls) = {}
        /\ Updates(calls) = {}
        /\ writes = <<>>

\* C2: when the documents directory exists the run ends with exit status 0
\* exactly when no outcome of a document and no outcome of a status rewrite
\* is a failure, and with 1 otherwise.
C2_ExitCodeIsOrOfFailures ==
    (pc = "done" /\ dir_exists) =>
        /\ exit_code \in {0, 1}
        /\ exit_code = 0 <=>
              /\ \A k \in 1..Len(results) : results[k][2]
              /\ \A k \in 1..Len(status_results) : status_results[k][1]

\* C3: the requirement whose status is written into a document is the
\* requirement the local -> Braingrid half matched to that document.
C3_OneRecordPerDocument ==
    \A w \in 1..Len(writes) : \A m \in 1..Len(calls) :
        (calls[m].op = "match" /\ calls[m].ok /\ calls[m].doc = writes[w].file)
            => calls[m].short_id = writes[w].req

\* C4: after a create command succeeded for a document, no create command
\* is issued for a later document whose normalized title is the same.
C4_NoSecondCreate ==
    \A j \in Created(calls) : \A k \in Creates(calls) :
        ~ /\ j < k
          /\ calls[j].doc < calls[k].doc
          /\ normalize_name(calls[j].title) = normalize_name(calls[k].title)

\* C5: every document is matched against a snapshot listed after all the
\* creations that succeeded before it in the batch.
C5_RefreshBeforeNextMatch ==
    \A m \in 1..Len(calls) :
        calls[m].op = "match" =>
            calls[m].snap = Cardinality({j \in Created(calls) : j < m})

\* a document was created and the next one was matched after the refresh
C5_Witness ==
    \E m \in 1..Len(calls) :
        /\ calls[m].op = "match"
        /\ calls[m].snap = 1
        /\ calls[m].doc = 2

\* C6: every document is processed once, in order, and has one outcome,
\* whatever fails: when the loop is over there are as many outcomes as
\* documents, the k-th is the k-th document's.
C6_OneOutcomePerDocument ==
    /\ Len(results) <= Len(files)
    /\ \A k \in Recorded : results[k][1] = files[k].name
    /\ \A d \in 1..Len(files) : Cardinality(CallsOf(calls, d, {"match"})) <= 1
    /\ BatchOver => Len(results) = Len(files)

\* the first document failed and the second was processed and succeeded
C6_Witness ==
    /\ BatchOver
    /\ Len(results) = 2
    /\ ~results[1][2]
    /\ results[2][2]

\* C7: a document for which a create command or a status update failed has
\* a failed outcome.
C7_FailedCommandFailsOutcome ==
    \A k \in 1..Len(calls) :
        (/\ calls[k].op \in {"create", "update", "followup"}
         /\ ~calls[k].ok
         /\ calls[k].doc \in Recorded)
            => ~results[calls[k].doc][2]

\* C8: after a create command succeeded for a document, a status update of
\* the new requirement follows exactly when the mapped status is not PLANNED.
C8_FollowupIffNotPlanned ==
    \A k \in Created(calls) :
        calls[k].doc \in Recorded =>
            (CallsOf(calls, calls[k].doc, {"followup"}) # {}
                <=> calls[k].status # sPLANNED)

\* the mapped status of document d as sync_req_file reads it
MappedStatusOf(d) ==
    map_status(Get(read_req_file(files[d].content).metadata, kStatus, StrV(sNotStarted)).v)

NameHits(title, reqs) ==
    {k \in 1..Len(reqs) : NamesMatch(normalize_name(reqs[k].name), normalize_name(title))}

\* the requirements of the snapshot whose short id is a candidate of req_id
IdHits(req_id, reqs) ==
    {k \in 1..Len(reqs) : \E p \in 1..Len(Patterns(req_id)) : reqs[k].short_id = Patterns(req_id)[p]}

\* the req_id of document d as sync_req_file reads it
ReqIdOf(d) == Get(read_req_file(files[d].content).metadata, kReqId, StrV(<<>>)).v

\* what the matcher returned for the title and req_id over the snapshot
Priority(title, req_id, reqs, found, short_id) ==
    /\ NameHits(title, reqs) # {} =>
          found /\ \E k \in NameHits(title, reqs) : reqs[k].short_id = short_id
    /\ (NameHits(title, reqs) = {} /\ IdHits(req_id, reqs) # {}) =>
          found /\ \E k \in IdHits(req_id, reqs) : reqs[k].short_id = short_id
    /\ (NameHits(title, reqs) = {} /\ IdHits(req_id, reqs) = {}) => ~found

\* C10: when a requirement of the snapshot matches the title by name, the
\* matcher returns one that does, even if another matches by short id; it
\* returns one that matches by short id only when none matches by name; it
\* returns nothing only when none matches either way.
C10_MatchPriority ==
    pc \in {"update", "create"} =>
        Priority(cur.title, ReqIdOf(idx), braingrid_reqs, pc = "update",
                 cur.existing_req.short_id)

\* one requirement matches by name and another by short id: the first is returned
C10_Witness ==
    /\ pc = "update"
    /\ NameHits(cur.title, braingrid_reqs) # {}
    /\ IdHits(ReqIdOf(idx), braingrid_reqs) # {}
    /\ IdHits(ReqIdOf(idx), braingrid_reqs) \cap NameHits(cur.title, braingrid_reqs) = {}

\* the requirements Braingrid holds under the short id
Held(short_id) == {k \in 1..Len(remote) : remote[k].short_id = short_id}

InHeader(lines, k) ==
    /\ StartsWith(lines[1], sDashes)
    /\ Ends(lines) # {}
    /\ 1 < k
    /\ k < MinOf(Ends(lines))

\* C12: a status rewrite changes no line of a document but the status:
\* lines of its header block; the body keeps every line, those that begin
\* with status: and those after a further --- line included.
C12_RewriteChangesHeaderStatusOnly ==
    [][RewriteLocalStatus =>
          \A d \in 1..Len(files) :
              /\ Len(files'[d].content) = Len(files[d].content)
              /\ \A k \in 1..Len(files[d].content) :
                    files'[d].content[k] # files[d].content[k] =>
                        /\ InHeader(files[d].content, k)
                        /\ StartsWith(files[d].content[k], sStatusLine)]_vars

\* C13: in a second Braingrid -> local run with --update-status, after a
\* first run that listed Braingrid and rewrote the statuses, no document is
\* written and no outcome is recorded.
C13_SecondRewriteWritesNothing ==
    (run = 2 /\ faults = 0 /\ update_status /\ direction = "from-braingrid") =>
        /\ writes = <<>>
        /\ status_results = <<>>

\* where main() stands inside the local -> Braingrid half
SyncPcs == {"sync", "update", "create", "created", "followup", "refresh"}

\* where main() stands inside the Braingrid -> local half
FromPcs == {"from", "rewrite"}

\* the names of the local documents, in path order
Names(fs) == [k \in 1..Len(fs) |-> fs[k].name]

TitleOf(d) == Get(read_req_file(files[d].content).metadata, kTitle, StrV(<<>>))

\* document d can be read and its header has no title or an empty one
NoTitle(d) == files[d].readable /\ ~Truthy(TitleOf(d))

\* C15: the step of sync_req_file (the only step main() takes from inside its
\* loop) over a document without a title records it as failed; no remote command
\* and no lookup is issued for it, the snapshot is left as it is, and the
\* loop goes on with the next document.
C15_MissingTitle ==
    [][(pc = "sync" /\ idx <= Len(files) /\ NoTitle(idx)) =>
          /\ Len(results') = Len(results) + 1
          /\ results'[Len(results')][1] = files[idx].name
          /\ ~results'[Len(results')][2]
          /\ calls' = calls
          /\ faults' = faults
          /\ remote' = remote
          /\ braingrid_reqs' = braingrid_reqs
          /\ snap_creates' = snap_creates
          /\ pc' = "sync"
          /\ idx' = idx + 1]_vars

\* a document without a title failed with "No title", nothing was issued
\* for it, and the document after it has its outcome
C15_Witness ==
    \E d \in 1..Len(results) :
        /\ NoTitle(d)
        /\ results[d] = <<files[d].name, FALSE, sNoTitle>>
        /\ CallsOf(calls, d, {"match", "create", "update", "followup", "list"}) = {}
        /\ Len(results) > d
        /\ results[d + 1][1] = files[d + 1].name

\* C16: map_status and reverse_map_status return a status for every string:
\* the entry of the table for a status of the table (REVIEW gives Completed),
\* PLANNED for any other local status, Not Started for any other Braingrid
\* status.
C16_StatusMappingTotal ==
    /\ (probe.fn = "map_status" /\ probe.done) =>
           probe.out = IF probe.arg = sNotStarted THEN sPLANNED
                       ELSE IF probe.arg = sInProgress THEN sIN_PROGRESS
                       ELSE IF probe.arg = sCompleted THEN sCOMPLETED
                       ELSE IF probe.arg = sReview THEN sREVIEW
                       ELSE sPLANNED
    /\ (probe.fn = "reverse_map_status" /\ probe.done) =>
           probe.out = IF probe.arg = sPLANNED THEN sNotStarted
                       ELSE IF probe.arg = sIN_PROGRESS THEN sInProgress
                       ELSE IF probe.arg = sCOMPLETED THEN sCompleted
                       ELSE IF probe.arg = sREVIEW THEN sCompleted
                       ELSE sNotStarted

\* map_status returned PLANNED for a status its table does not hold
C16_Witness ==
    /\ probe.fn = "map_status"
    /\ probe.done
    /\ probe.arg \notin DOMAIN STATUS_MAP
    /\ probe.arg # <<>>
    /\ probe.out = sPLANNED

\* C17: for one title, one hint and one snapshot, a second call of
\* find_existing_req returns what the first returned, the same requirement
\* with the same id, on the snapshot as the first call left it; the lookups
\* answer both calls alike.
C17_MatchingDeterministic ==
    (probe.fn = "find_existing_req" /\ probe.done) =>
        /\ probe.out.second.found = probe.out.first.found
        /\ probe.out.second.req = probe.out.first.req
        /\ probe.out.second.by = probe.out.first.by
        /\ probe.out.second.reqs = probe.out.first.reqs

\* the first call changed the snapshot (the details lookup failed and the
\* short id was written into the dict of the snapshot) and the second call
\* returned the same requirement
C17_Witness ==
    /\ probe.fn = "find_existing_req"
    /\ probe.done
    /\ probe.out.first.found
    /\ probe.out.first.reqs # probe.out.snapshot
    /\ probe.out.second.found
    /\ probe.out.second.req = probe.out.first.req
    /\ probe.out.second.req.id = probe.out.second.req.short_id

\* C18: the candidates built from a hint that is not empty hold the hint
\* itself, the hint's number without leading zeros and the number padded
\* to three digits.
C18_CandidatesHoldHint ==
    (probe.fn = "patterns" /\ probe.done /\ probe.arg # <<>>) =>
        /\ probe.arg \in Range(probe.out)
        /\ sREQ \o ZFill(ReplaceAll(probe.arg, sREQ, <<>>), 3) \in Range(probe.out)

\* the title opens with an identifier followed by a colon: no blank stands
\* before the first colon
IdPrefixed(title) ==
    /\ Contains(title, <<":">>)
    /\ SplitOnce(title, <<":">>)[1] # <<>>
    /\ \A k \in 1..Len(SplitOnce(title, <<":">>)[1]) : ~IsWs(SplitOnce(title, <<":">>)[1][k])

\* the title in lower case and trimmed, without its identifier prefix when
\* it has one
Bare(title) ==
    Strip(Lower(IF IdPrefixed(title) THEN SplitOnce(title, <<":">>)[2] ELSE title))

\* C19: normalize_name gives the title without its identifier prefix, when
\* and only when it has one, in lower case and trimmed, less a trailing
\* qualifier: the result opens the bare title and ends with no blank; a
\* title and the same title followed by a qualifier give the same result.
C19_NormalizedTitle ==
    (probe.fn = "normalize_name" /\ probe.done) =>
        /\ StartsWith(Bare(probe.arg.title), probe.out.plain)
        /\ Strip(probe.out.plain) = probe.out.plain
        /\ probe.out.qualified = probe.out.plain

\* the text opens with --- and a later line closes the header
Delimited(text) ==
    /\ StartsWith(text[1], sDashes)
    /\ \E k \in 2..Len(text) : Strip(text[k]) = sDashes

\* C20: for a text that does not open with ---, and for a text that opens
\* with it and has no later closing line, parse_yaml_front_matter returns
\* no metadata and the text as it was given.
C20_ParserFailsOpen ==
    (probe.fn = "parse_yaml_front_matter" /\ probe.done /\ ~Delimited(probe.arg)) =>
        /\ probe.out.metadata = EmptyDict
        /\ probe.out.markdown = probe.arg

\* a text that opens with --- and holds a title, without a closing line,
\* came back whole and without metadata
C20_Witness ==
    /\ probe.fn = "parse_yaml_front_matter"
    /\ probe.done
    /\ probe.arg[1] = sDashes
    /\ Len(probe.arg) > 1
    /\ ~Delimited(probe.arg)
    /\ probe.out = [metadata |-> EmptyDict, markdown |-> probe.arg]

\* C21: a mapping of scalars, inline lists and block lists, rendered as a
\* header and parsed, comes back equal to itself.
C21_HeaderRoundTrip ==
    (probe.fn = "render" /\ probe.done) => probe.out = Mapping(probe.arg)

\* the tokens of line k of a listing
Tokens(text, k) == SplitWs(Strip(text[k]))

\* the separator lines of a listing
Separators(text) == {k \in 1..Len(text) : Contains(text[k], <<cBox, cBox>>)}

\* the table rows of a listing: the lines after the first separator that
\* are neither blank, banner, column header nor separator and hold three
\* tokens or more
Rows(text) ==
    {k \in 1..Len(text) :
        /\ Separators(text) # {}
        /\ k > MinOf(Separators(text))
        /\ k \notin Separators(text)
        /\ Len(Tokens(text, k)) >= 3
        /\ ~StartsWith(Strip(text[k]), <<cClipboard>>)
        /\ ~StartsWith(Strip(text[k]), sShortIdHdr)}

\* the j-th row of a listing
Row(text, j) == CHOOSE k \in Rows(text) : Cardinality({i \in Rows(text) : i < k}) = j - 1

\* the token after which the name of a row starts
StatusAt(parts) == IF parts[2] \in IconTokens THEN 3 ELSE 2

\* no name token stands between the status and the end of the row
Nameless(parts) ==
    \/ StatusAt(parts) = Len(parts)
    \/ parts[StatusAt(parts) + 1] = sNA
    \/ EndsWith(parts[StatusAt(parts) + 1], <<"%">>)

\* C22: the scanner gives one record for each table row of three tokens or
\* more after the separator and none for any other line; the short id of a
\* record is the first token of its row, its name is never empty and is
\* Unknown when the row holds no name token.
C22_ListingScanner ==
    (probe.fn = "list_braingrid_requirements" /\ probe.done) =>
        /\ Len(probe.out) = Cardinality(Rows(probe.arg))
        /\ \A j \in 1..Len(probe.out) :
              /\ probe.out[j].short_id = Tokens(probe.arg, Row(probe.arg, j))[1]
              /\ probe.out[j].name # <<>>
              /\ Nameless(Tokens(probe.arg, Row(probe.arg, j))) <=>
                     probe.out[j].name = sUnknown

\* a listing with a row of two tokens and a row without a name under its
\* header: one record, named Unknown
C22_Witness ==
    /\ probe.fn = "list_braingrid_requirements"
    /\ probe.done
    /\ Separators(probe.arg) # {}
    /\ \E k \in 1..Len(probe.arg) :
          k > MinOf(Separators(probe.arg)) /\ Len(Tokens(probe.arg, k)) = 2
    /\ Len(probe.out) = 1
    /\ probe.out[1].name = sUnknown

\* the status the header of document d holds
LocalStatusOf(d) == Get(read_req_file(files[d].content).metadata, kStatus, StrV(<<>>))

\* document d and the requirement at position k of Braingrid are paired in
\* both halves of the run: the local -> Braingrid half updated the
\* requirement for the document, and the requirement's short id stands for
\* the document's req_id
Paired(d, k) ==
    /\ LocalFileOf(remote[k].short_id, local_req_ids) = d
    /\ \E u \in CallsOf(calls, d, {"update"}) : calls[u].ok /\ calls[u].id = remote[k].id

\* C23: when a bidirectional run with --update-status is over, no command
\* and no write having failed, the status of every document equals the
\* status of the requirement it is paired with, mapped back.
C23_BidirectionalConverges ==
    (/\ pc = "done"
     /\ direction = "bidirectional"
     /\ update_status
     /\ dir_exists
     /\ faults = 0
     /\ \A k \in 1..Len(status_results) : status_results[k][1]
     /\ \A k \in 1..Len(results) : results[k][2]) =>
        \A d \in 1..Len(files) : \A k \in 1..Len(remote) :
            Paired(d, k) => LocalStatusOf(d) = StrV(reverse_map_status(remote[k].status))

\* C24: a create command is issued only for a document whose title matches
\* the name of no requirement Braingrid holds when the command is issued,
\* whatever the listings gave.
C24_NoDuplicateAfterFailedListing ==
    [][(pc = "create" /\ Creates(calls') # Creates(calls)) =>
          NameHits(cur.title, remote) = {}]_vars

\* the searches of the run that returned a requirement
Matched == {m \in 1..Len(calls) : calls[m].op = "match" /\ calls[m].ok}

\* C25: in one local -> Braingrid run, two documents whose normalized titles
\* differ and are not empty are never matched to the same requirement, and no
\* requirement is sent status updates from two such documents.
C25_MatchingInjective ==
    /\ \A m \in Matched : \A n \in Matched :
          (/\ calls[m].doc # calls[n].doc
           /\ calls[m].short_id = calls[n].short_id
           /\ normalize_name(calls[m].title) # <<>>
           /\ normalize_name(calls[n].title) # <<>>) =>
              normalize_name(calls[m].title) = normalize_name(calls[n].title)
    /\ \A u \in Updates(calls) : \A v \in Updates(calls) :
          (/\ calls[u].doc # calls[v].doc
           /\ calls[u].id = calls[v].id
           /\ normalize_name(calls[u].title) # <<>>
           /\ normalize_name(calls[v].title) # <<>>) =>
              normalize_name(calls[u].title) = normalize_name(calls[v].title)

=============================================================================
